---------------------------- MODULE Spec2Model ----------------------------
(***************************************************************************)
(* LAMBDA-SPLITTER: the three scripts of the repository.                   *)
(*                                                                         *)
(*   main.py      list_files_with_size, split_files_by_size, main          *)
(*   split.py     the incremental part_N folder loop (module level)        *)
(*   splitter.py  LambdaLayerSplitter (copy small files, split and zip     *)
(*                large ones)                                              *)
(*                                                                         *)
(* One behaviour is one run of one script on one source tree.  A file is   *)
(* identified by its position in the enumeration of the tree (its path);   *)
(* the byte at offset k of a file is modelled by the number k, so that a   *)
(* dropped, duplicated or reordered byte is visible in what is written.    *)
(***************************************************************************)
EXTENDS Integers, Sequences, FiniteSets

\* ------------------------------------------------------------- bounds

\* Largest number of entries in the source tree.
MaxFiles == 3

\* Largest total size of the files of the source tree, in bytes.
MaxBytes == 5

\* Largest capacity (MAX_SIZE, MAX_SIZE_BYTES, max_part_size); the smallest
\* is MinCap, which is not positive.
MaxCap == 3

\* Largest buffer_size.
MaxBuf == 3

MinCap == 0 - 1

Min(a, b) == IF a <= b THEN a ELSE b

\* --------------------------------------------------- main.py: the packer

RECURSIVE SumSizes(_)
\* sum of the sizes of a list of (abs_path, rel_path, size) tuples
SumSizes(chunk) ==
    IF chunk = <<>> THEN 0 ELSE Head(chunk).size + SumSizes(Tail(chunk))

\* the seal test without the incoming file's size
ShouldSealIgnoringSize(current_chunk, current_sum, size, max_size) ==
    current_chunk # <<>> /\ current_sum > max_size

\* the seal test with >= for >
ShouldSealAtCapacity(current_chunk, current_sum, size, max_size) ==
    current_chunk # <<>> /\ current_sum + size >= max_size

\* main.py:54  `if current_chunk and (current_sum + size > max_size)`
ShouldSeal(current_chunk, current_sum, size, max_size) ==
    current_chunk # <<>> /\ current_sum + size > max_size

\* main.py:52-60  one iteration of the for loop; st is the triple of locals
PackFile(st, file, max_size) ==
    LET seal == ShouldSeal(st.current_chunk, st.current_sum, file.size, max_size)
        chunks0 == IF seal THEN Append(st.chunks, st.current_chunk) ELSE st.chunks
        chunk0 == IF seal THEN <<>> ELSE st.current_chunk
        sum0 == IF seal THEN 0 ELSE st.current_sum
    IN  [chunks |-> chunks0,
         current_chunk |-> Append(chunk0, file),
         current_sum |-> sum0 + file.size]

RECURSIVE PackFrom(_, _, _, _)
\* main.py:52  the for loop from the k-th file on
PackFrom(st, files, k, max_size) ==
    IF k > Len(files) THEN st
    ELSE PackFrom(PackFile(st, files[k], max_size), files, k + 1, max_size)

\* the return without the append of the last chunk
FlushLastForgotten(chunks, current_chunk) == chunks

\* main.py:63-64  `if current_chunk: chunks.append(current_chunk)`
FlushLast(chunks, current_chunk) ==
    IF current_chunk # <<>> THEN Append(chunks, current_chunk) ELSE chunks

\* main.py:42-66
split_files_by_size(files, max_size) ==
    LET st == PackFrom([chunks |-> <<>>, current_chunk |-> <<>>, current_sum |-> 0],
                       files, 1, max_size)
    IN  FlushLast(st.chunks, st.current_chunk)

\* ------------------------------------------------------------- state

VARIABLES
    script,        \* which script runs: "main", "split" or "splitter"
    tree,          \* the source tree in enumeration order: [path, is_file, size]
    src_status,    \* "ok", "missing" or "notdir": what SOURCE_DIR / source_dir is
    max_size,      \* MAX_SIZE, MAX_SIZE_BYTES or max_part_size
    buffer_size,   \* splitter.py: buffer_size
    pc,            \* where the script is
    error,         \* the exception the run ended with, "none" if none
    out_dir,       \* whether the output / target directory was created
    chunks,        \* main.py: the result of split_files_by_size
    idx,           \* main.py: the number of chunks materialised
    folders,       \* main.py, split.py: folder n -> the paths copied into it
    zips,          \* main.py: the n for which python_part_{n}.zip exists
    pos,           \* split.py, splitter.py: entries of the tree consumed
    part_num,      \* split.py: part_num; splitter.py: part_num of the file being split
    current_size,  \* split.py: current_size
    io_errors,     \* split.py: the getsize / copy2 calls that raised
    attempted,     \* splitter.py: the paths _process_file was called with, in order
    failed,        \* splitter.py: the paths whose failure was logged
    copied,        \* splitter.py: the paths _copy_file copied
    parts,         \* splitter.py: path -> the zip parts written for it
    src_pos,       \* splitter.py: the cursor of src_file
    bytes_written, \* splitter.py: _write_chunk's bytes_written
    bytes_to_read  \* splitter.py: _write_chunk's bytes_to_read

inputs == <<script, tree, src_status, max_size, buffer_size>>

mainVars == <<chunks, idx, zips>>

splitPyVars == <<current_size, io_errors>>

splitterVars == <<attempted, failed, copied, parts, src_pos, bytes_written,
                  bytes_to_read>>

vars == <<inputs, pc, error, out_dir, folders, pos, part_num, mainVars,
          splitPyVars, splitterVars>>

\* ------------------------------------------------------------- inputs

FileEntries == [is_file : {TRUE}, size : 0..MaxBytes]

DirEntries == [is_file : {FALSE}, size : {0}]

RECURSIVE SeqsUpTo(_, _)
\* the sequences over S of length at most n
SeqsUpTo(S, n) ==
    IF n = 0 THEN {<<>>}
    ELSE LET shorter == SeqsUpTo(S, n - 1)
         IN  shorter \cup {Append(s, x) : s \in {t \in shorter : Len(t) = n - 1}, x \in S}

\* an enumeration gives every entry its path: here its position
WithPaths(entries) ==
    [i \in 1..Len(entries) |->
        [path |-> i, is_file |-> entries[i].is_file, size |-> entries[i].size]]

\* main.py:29-40  list_files_with_size: os.walk yields the files of the tree
\* (split.py:30-35 walks it the same way)
list_files_with_size(t) == SelectSeq(t, LAMBDA e : e.is_file)

Paths(chunk) == [i \in 1..Len(chunk) |-> chunk[i].path]

Init ==
    /\ script \in {"main", "split", "splitter"}
    /\ src_status \in {"ok", "missing", "notdir"}
    /\ \E entries \in SeqsUpTo(FileEntries \cup DirEntries, MaxFiles) :
          /\ SumSizes(entries) <= MaxBytes
          /\ script # "splitter" => \A i \in 1..Len(entries) : entries[i].is_file
          /\ src_status # "ok" => entries = <<>>
          /\ tree = WithPaths(entries)
    /\ max_size \in MinCap..MaxCap
    /\ buffer_size \in IF script = "splitter" THEN 1..MaxBuf ELSE {1}
    /\ pc = "start"
    /\ error = "none"
    /\ out_dir = FALSE
    /\ chunks = <<>>
    /\ idx = 0
    /\ folders = <<>>
    /\ zips = {}
    /\ pos = 0
    /\ part_num = 0
    /\ current_size = 0
    /\ io_errors = 0
    /\ attempted = <<>>
    /\ failed = {}
    /\ copied = {}
    /\ parts = [p \in 1..Len(tree) |-> <<>>]
    /\ src_pos = 0
    /\ bytes_written = 0
    /\ bytes_to_read = 0

\* --------------------------------------------------------- main.py: main

\* main.py:93-103  makedirs(OUTPUT_DIR), list the files, leave when none
MainList ==
    /\ script = "main" /\ pc = "start"
    /\ out_dir' = TRUE
    /\ pc' = IF Len(list_files_with_size(tree)) = 0 THEN "done" ELSE "split"
    /\ UNCHANGED <<inputs, error, folders, pos, part_num, mainVars,
                   splitPyVars, splitterVars>>

\* main.py:105-107
MainSplit ==
    /\ script = "main" /\ pc = "split"
    /\ chunks' = split_files_by_size(list_files_with_size(tree), max_size)
    /\ pc' = "materialize"
    /\ UNCHANGED <<inputs, error, out_dir, folders, pos, part_num, idx, zips,
                   splitPyVars, splitterVars>>

\* main.py:110-125  one iteration: python{idx}, the copies, python_part_{idx}.zip
MainChunk ==
    /\ script = "main" /\ pc = "materialize"
    /\ idx < Len(chunks)
    /\ idx' = idx + 1
    /\ folders' = Append(folders, Paths(chunks[idx + 1]))
    /\ zips' = zips \cup {idx + 1}
    /\ UNCHANGED <<inputs, pc, error, out_dir, pos, part_num, chunks,
                   splitPyVars, splitterVars>>

\* main.py:116-122  a copy2 or ZipFile call raises: nothing catches it, the
\* subfolder and what was copied or zipped so far stay, and the run ends
\* with the traceback
MainIOError ==
    /\ script = "main" /\ pc = "materialize"
    /\ idx < Len(chunks)
    /\ \E n \in 0..Len(chunks[idx + 1]), zipped \in BOOLEAN :
          /\ zipped => n = Len(chunks[idx + 1])
          /\ folders' = Append(folders, SubSeq(Paths(chunks[idx + 1]), 1, n))
          /\ zips' = IF zipped THEN zips \cup {idx + 1} ELSE zips
    /\ error' = "OSError"
    /\ pc' = "done"
    /\ UNCHANGED <<inputs, out_dir, pos, part_num, chunks, idx,
                   splitPyVars, splitterVars>>

\* main.py:127
MainDone ==
    /\ script = "main" /\ pc = "materialize"
    /\ idx = Len(chunks)
    /\ pc' = "done"
    /\ UNCHANGED <<inputs, error, out_dir, folders, pos, part_num, mainVars,
                   splitPyVars, splitterVars>>

\* ------------------------------------------------------------- split.py

\* split.py:44  `if current_size + file_size > MAX_SIZE_BYTES`
NeedsNewPart(size_so_far, file_size, limit) == size_so_far + file_size > limit

\* split.py:9-27  the source checks, makedirs(OUTPUT_DIR), part_num = 1 and
\* the first folder part_1, created before any file is looked at
SplitPyStart ==
    /\ script = "split" /\ pc = "start"
    /\ IF src_status = "missing"
         THEN /\ error' = "FileNotFoundError"      \* split.py:9-10
              /\ pc' = "done"
              /\ UNCHANGED <<out_dir, part_num, folders>>
         ELSE IF src_status = "notdir"
         THEN /\ error' = "NotADirectoryError"     \* split.py:15, os.scandir
              /\ pc' = "done"
              /\ UNCHANGED <<out_dir, part_num, folders>>
         ELSE /\ out_dir' = TRUE
              /\ part_num' = 1
              /\ folders' = <<<<>>>>
              /\ pc' = "walk"
              /\ UNCHANGED error
    /\ UNCHANGED <<inputs, pos, mainVars, splitPyVars, splitterVars>>

\* split.py:35-56  one iteration of the inner loop, getsize and copy2 each
\* succeeding or raising
SplitPyFile ==
    /\ script = "split" /\ pc = "walk"
    /\ pos < Len(list_files_with_size(tree))
    /\ LET file == list_files_with_size(tree)[pos + 1] IN
       \E outcome \in {"ok", "getsize_raises", "copy_raises"} :
          IF outcome = "getsize_raises"
            THEN /\ io_errors' = io_errors + 1      \* split.py:39-41 continue
                 /\ UNCHANGED <<part_num, folders, current_size>>
            ELSE LET fresh == NeedsNewPart(current_size, file.size, max_size)
                     num0 == IF fresh THEN part_num + 1 ELSE part_num
                     folders0 == IF fresh THEN Append(folders, <<>>) ELSE folders
                     size0 == IF fresh THEN 0 ELSE current_size
                 IN  /\ part_num' = num0
                     /\ IF outcome = "ok"
                          THEN /\ folders' = [folders0 EXCEPT ![num0] =
                                                 Append(@, file.path)]
                               /\ current_size' = size0 + file.size
                               /\ UNCHANGED io_errors
                          ELSE /\ folders' = folders0   \* split.py:55-56
                               /\ current_size' = size0
                               /\ io_errors' = io_errors + 1
    /\ pos' = pos + 1
    /\ UNCHANGED <<inputs, pc, error, out_dir, mainVars, splitterVars>>

\* split.py:58  "Total parts created: {part_num}"
SplitPyDone ==
    /\ script = "split" /\ pc = "walk"
    /\ pos = Len(list_files_with_size(tree))
    /\ pc' = "done"
    /\ UNCHANGED <<inputs, error, out_dir, folders, pos, part_num, mainVars,
                   splitPyVars, splitterVars>>

\* ---------------------------------------------------------- splitter.py

\* the bytes of a file of the given size, each byte tagged with its offset
FileData(size) == [k \in 1..size |-> k - 1]

\* the read size without the room left in the part
BytesToReadUncapped(buffer, limit, written) == buffer

\* splitter.py:99-102  min(self.buffer_size, self.max_part_size - bytes_written)
BytesToRead(buffer, limit, written) == Min(buffer, limit - written)

\* the source opened anew for every part
CursorRewound(cursor) == 0

\* splitter.py:72-73  src_file is opened once, outside the loop over the
\* parts: a part starts reading where the part before it stopped
CursorAtPartStart(cursor) == cursor

\* splitter.py:17-39  __init__ and _validate_inputs; splitter.py:110-120
\* logs the exception as fatal and exits 1
SplitterInit ==
    /\ script = "splitter" /\ pc = "start"
    /\ IF src_status = "missing"
         THEN error' = "FileNotFoundError" /\ pc' = "done"
         ELSE IF src_status = "notdir"
         THEN error' = "NotADirectoryError" /\ pc' = "done"
         ELSE IF max_size <= 0
         THEN error' = "ValueError" /\ pc' = "done"
         ELSE error' = "none" /\ pc' = "constructed"
    /\ UNCHANGED <<inputs, out_dir, folders, pos, part_num, mainVars,
                   splitPyVars, splitterVars>>

\* splitter.py:41-43  process_directory: target_dir.mkdir
ProcessDirectory ==
    /\ script = "splitter" /\ pc = "constructed"
    /\ out_dir' = TRUE
    /\ pc' = "walk"
    /\ UNCHANGED <<inputs, error, folders, pos, part_num, mainVars,
                   splitPyVars, splitterVars>>

\* splitter.py:45-46  an entry that is not a file is passed over
SkipDirectory ==
    /\ script = "splitter" /\ pc = "walk"
    /\ pos < Len(tree)
    /\ ~tree[pos + 1].is_file
    /\ pos' = pos + 1
    /\ UNCHANGED <<inputs, pc, error, out_dir, folders, part_num, mainVars,
                   splitPyVars, splitterVars>>

\* splitter.py:49-58, 67-72  _process_file: stat, then the copy branch or
\* the split branch, which opens the source and starts at part 1
ProcessFile ==
    /\ script = "splitter" /\ pc = "walk"
    /\ pos < Len(tree)
    /\ tree[pos + 1].is_file
    /\ attempted' = Append(attempted, pos + 1)
    /\ IF tree[pos + 1].size <= max_size
         THEN /\ pc' = "copy"
              /\ UNCHANGED <<part_num, src_pos, bytes_written>>
         ELSE /\ pc' = "open_part"
              /\ part_num' = 1
              /\ bytes_written' = 0
              /\ src_pos' = 0
    /\ UNCHANGED <<inputs, error, out_dir, folders, pos, mainVars, splitPyVars,
                   failed, copied, parts, bytes_to_read>>

\* splitter.py:54  source_file.stat() raises inside the try
StatRaises ==
    /\ script = "splitter" /\ pc = "walk"
    /\ pos < Len(tree)
    /\ tree[pos + 1].is_file
    /\ attempted' = Append(attempted, pos + 1)
    /\ pc' = "except"
    /\ UNCHANGED <<inputs, error, out_dir, folders, pos, part_num, mainVars,
                   splitPyVars, failed, copied, parts, src_pos, bytes_written,
                   bytes_to_read>>

\* splitter.py:62-65  _copy_file
CopyFile ==
    /\ script = "splitter" /\ pc = "copy"
    /\ copied' = copied \cup {pos + 1}
    /\ pos' = pos + 1
    /\ pc' = "walk"
    /\ UNCHANGED <<inputs, error, out_dir, folders, part_num, mainVars,
                   splitPyVars, attempted, failed, parts, src_pos,
                   bytes_written, bytes_to_read>>

\* splitter.py:74-85, 97  the zip part{part_num} is created and its entry
\* opened; _write_chunk starts with bytes_written = 0
OpenPart ==
    /\ script = "splitter" /\ pc = "open_part"
    /\ parts' = [parts EXCEPT ![pos + 1] =
                    Append(@, [index |-> part_num,
                               offset |-> CursorAtPartStart(src_pos),
                               data |-> <<>>])]
    /\ src_pos' = CursorAtPartStart(src_pos)
    /\ bytes_written' = 0
    /\ pc' = "chunk"
    /\ UNCHANGED <<inputs, error, out_dir, folders, pos, part_num, mainVars,
                   splitPyVars, attempted, failed, copied, bytes_to_read>>

\* splitter.py:98-102  the while test and the size of the next read
ChunkLoop ==
    /\ script = "splitter" /\ pc = "chunk"
    /\ IF bytes_written < max_size
         THEN /\ bytes_to_read' = BytesToRead(buffer_size, max_size, bytes_written)
              /\ pc' = "read"
         ELSE /\ pc' = "close_part"
              /\ UNCHANGED bytes_to_read
    /\ UNCHANGED <<inputs, error, out_dir, folders, pos, part_num, mainVars,
                   splitPyVars, attempted, failed, copied, parts, src_pos,
                   bytes_written>>

\* splitter.py:103-107  read returns at most bytes_to_read bytes, none only
\* at the end of the file; what was read is written to the part
ReadWrite ==
    /\ script = "splitter" /\ pc = "read"
    /\ LET size == tree[pos + 1].size
           left == size - src_pos
       IN  IF left = 0 \/ bytes_to_read = 0
             THEN /\ pc' = "close_part"               \* `if not chunk: break`
                  /\ UNCHANGED <<parts, src_pos, bytes_written>>
             ELSE \E n \in 1..Min(bytes_to_read, left) :
                    LET chunk == SubSeq(FileData(size), src_pos + 1, src_pos + n)
                        last == Len(parts[pos + 1])
                    IN  /\ parts' = [parts EXCEPT ![pos + 1][last].data = @ \o chunk]
                        /\ src_pos' = src_pos + n
                        /\ bytes_written' = bytes_written + Len(chunk)
                        /\ pc' = "chunk"
    /\ UNCHANGED <<inputs, error, out_dir, folders, pos, part_num, mainVars,
                   splitPyVars, attempted, failed, copied, bytes_to_read>>

\* splitter.py:87-94, 108  _write_chunk has returned and the part is closed;
\* a part that is not full was the last one, and _split_and_zip_file returns
\* (the locals of a call that has returned are written as 0)
ClosePart ==
    /\ script = "splitter" /\ pc = "close_part"
    /\ bytes_to_read' = 0
    /\ IF bytes_written < max_size
         THEN /\ pos' = pos + 1
              /\ pc' = "walk"
              /\ part_num' = 0 /\ src_pos' = 0 /\ bytes_written' = 0
         ELSE /\ part_num' = part_num + 1
              /\ pc' = "open_part"
              /\ UNCHANGED <<pos, src_pos, bytes_written>>
    /\ UNCHANGED <<inputs, error, out_dir, folders, mainVars, splitPyVars,
                   attempted, failed, copied, parts>>

\* splitter.py:63-64, 68, 72-85, 103-106  a mkdir, copy2, stat, open, read
\* or write raises inside _process_file's try
IORaises ==
    /\ script = "splitter" /\ pc \in {"copy", "open_part", "read"}
    /\ pc' = "except"
    /\ UNCHANGED <<inputs, error, out_dir, folders, pos, part_num, mainVars,
                   splitPyVars, splitterVars>>

\* the handler logging the failure and raising it again
LogFailureReraised ==
    /\ script = "splitter" /\ pc = "except"
    /\ failed' = failed \cup {pos + 1}
    /\ error' = "OSError"
    /\ pc' = "done"
    /\ UNCHANGED <<inputs, out_dir, folders, pos, part_num, mainVars,
                   splitPyVars, attempted, copied, parts, src_pos,
                   bytes_written, bytes_to_read>>

\* splitter.py:59-60  `except Exception`: the failure is logged and
\* _process_file returns; the walk goes on with the next entry
LogFailure ==
    /\ script = "splitter" /\ pc = "except"
    /\ failed' = failed \cup {pos + 1}
    /\ pos' = pos + 1
    /\ pc' = "walk"
    /\ part_num' = 0 /\ src_pos' = 0 /\ bytes_written' = 0 /\ bytes_to_read' = 0
    /\ UNCHANGED <<inputs, error, out_dir, folders, mainVars, splitPyVars,
                   attempted, copied, parts>>

\* splitter.py:118  "Processing completed successfully"
SplitterDone ==
    /\ script = "splitter" /\ pc = "walk"
    /\ pos = Len(tree)
    /\ pc' = "done"
    /\ UNCHANGED <<inputs, error, out_dir, folders, pos, part_num, mainVars,
                   splitPyVars, splitterVars>>

Next ==
    \/ MainList
    \/ MainSplit
    \/ MainChunk
    \/ MainIOError
    \/ MainDone
    \/ SplitPyStart
    \/ SplitPyFile
    \/ SplitPyDone
    \/ SplitterInit
    \/ ProcessDirectory
    \/ SkipDirectory
    \/ ProcessFile
    \/ StatRaises
    \/ CopyFile
    \/ OpenPart
    \/ ChunkLoop
    \/ ReadWrite
    \/ ClosePart
    \/ IORaises
    \/ LogFailure
    \/ SplitterDone

Spec == Init /\ [][Next]_vars

\* ------------------------------------------------------------ properties

RECURSIVE Flatten(_)
\* the concatenation of a list of lists
Flatten(lists) ==
    IF lists = <<>> THEN <<>> ELSE Head(lists) \o Flatten(Tail(lists))

Ceil(a, b) == (a + b - 1) \div b

\* main.py has called split_files_by_size and holds its result in chunks
Packed ==
    /\ script = "main"
    /\ pc \in {"materialize", "done"}
    /\ list_files_with_size(tree) # <<>>

\* splitter.py: the object was constructed (the inputs passed validation)
Constructed == script = "splitter" /\ src_status = "ok" /\ max_size > 0

\* splitter.py: _split_and_zip_file was called for path p and returned
\* without raising
SplitCompleted(p) ==
    /\ Constructed
    /\ p <= pos
    /\ tree[p].is_file
    /\ tree[p].size > max_size
    /\ p \notin failed

PartLengths(ps) == [j \in 1..Len(ps) |-> Len(ps[j].data)]

PartData(ps) == Flatten([j \in 1..Len(ps) |-> ps[j].data])

RECURSIVE SumSeq(_)
SumSeq(ns) == IF ns = <<>> THEN 0 ELSE Head(ns) + SumSeq(Tail(ns))

RECURSIVE FullPartsThenRest(_, _)
\* the lengths a split of size bytes has when only the part size decides
\* them: full parts while limit bytes are left, then what is left (nothing,
\* when size is a multiple of limit)
FullPartsThenRest(size, limit) ==
    IF size < limit THEN <<size>>
    ELSE <<limit>> \o FullPartsThenRest(size - limit, limit)

C2_NoEmptyPart ==
    \A p \in 1..Len(tree) :
        SplitCompleted(p) =>
            LET ps == parts[p]
                k == Len(ps)
            IN  /\ k >= 1
                /\ \A j \in 1..k : ps[j].index = j /\ Len(ps[j].data) <= max_size
                /\ Len(ps[k].data) > 0
                /\ k = Ceil(tree[p].size, max_size)

\* C3: the byte ranges of parts 1, 2, ..., k of a file follow one another
\* from offset 0 without gap or overlap, what is written so far is a prefix
\* of the source, and once the split has returned the parts concatenated in
\* index order are the source bytes, their lengths summing to the file size.
C3_PartsCoverFile ==
    script = "splitter" =>
        \A p \in 1..Len(tree) :
            LET ps == parts[p]
                written == PartData(ps)
            IN  /\ \A j \in 1..Len(ps) :
                      /\ ps[j].index = j
                      /\ ps[j].offset = SumSeq(SubSeq(PartLengths(ps), 1, j - 1))
                /\ Len(written) <= tree[p].size
                /\ written = SubSeq(FileData(tree[p].size), 1, Len(written))
                /\ SplitCompleted(p) =>
                      /\ written = FileData(tree[p].size)
                      /\ SumSeq(PartLengths(ps)) = tree[p].size

\* C3's case: a completed split into three parts, the last one shorter
C3_Witness ==
    \E p \in 1..Len(tree) :
        /\ SplitCompleted(p)
        /\ Len(parts[p]) = 3
        /\ Len(parts[p][3].data) \in 1..(max_size - 1)

\* C4: with a capacity <= 0 the run ends with the invalid-capacity error, and
\* before that no bin is formed and no part folder, copy or archive is
\* produced (main.py's packer, reached with files to pack, and
\* LambdaLayerSplitter alike).
C4_InvalidCapacityFailsFirst ==
    (/\ script \in {"main", "splitter"}
     /\ src_status = "ok"
     /\ list_files_with_size(tree) # <<>>
     /\ max_size <= 0) =>
        /\ chunks = <<>> /\ folders = <<>> /\ zips = {}
        /\ copied = {} /\ \A p \in 1..Len(tree) : parts[p] = <<>>
        /\ pc = "done" => error = "ValueError"

\* C5: for a capacity > 0 the bins of split_files_by_size, concatenated in
\* bin order, are the input sequence: no file lost, repeated or moved.
C5_BinsPartitionInput ==
    (Packed /\ max_size > 0) => Flatten(chunks) = list_files_with_size(tree)

\* C5's case: a packing of several bins, one of them with several files
C5_Witness ==
    /\ Packed /\ max_size > 0
    /\ Len(chunks) >= 2
    /\ \E b \in 1..Len(chunks) : Len(chunks[b]) >= 2

\* C6: a bin is sealed before a file exactly when it is not empty and its
\* total plus the file's size is > capacity: no bin is empty, the total of a
\* bin plus the first file of the next is > capacity, and every file that is
\* not the first of its bin kept the running total <= capacity.
C6_SealOnlyOnOverflow ==
    (Packed /\ max_size > 0) =>
        \A b \in 1..Len(chunks) :
            /\ chunks[b] # <<>>
            /\ b < Len(chunks) =>
                  SumSizes(chunks[b]) + chunks[b + 1][1].size > max_size
            /\ \A j \in 2..Len(chunks[b]) :
                  SumSizes(SubSeq(chunks[b], 1, j)) <= max_size

\* C6's case: sizes 1, 2, 2 at capacity 3 (the spec's 10, 20, 25 at 30): the
\* second file brings the total to exactly the capacity and joins the bin
C6_Witness ==
    /\ Packed /\ max_size = 3
    /\ Len(chunks) = 2
    /\ [j \in 1..Len(chunks[1]) |-> chunks[1][j].size] = <<1, 2>>
    /\ [j \in 1..Len(chunks[2]) |-> chunks[2][j].size] = <<2>>

\* C7: with no file in the source the run ends successfully with zero bins
\* and zero output units: no part folder, no archive, zero parts reported
\* (main.py and split.py alike).
C7_EmptySourceProducesNothing ==
    (/\ script \in {"main", "split"}
     /\ src_status = "ok"
     /\ list_files_with_size(tree) = <<>>
     /\ pc = "done") =>
        /\ error = "none"
        /\ chunks = <<>> /\ folders = <<>> /\ zips = {}
        /\ part_num = 0

\* the entries _process_file has been called with when the walk has
\* consumed the first k entries of the tree
FilesAmong(k) == Paths(list_files_with_size(SubSeq(tree, 1, k)))

\* C8: in process_directory a failure on one file does not end the run:
\* every file is attempted exactly once, in enumeration order, whatever
\* failed before it, the failure does not reach the caller, and the run ends
\* only when the walk is over.
C8_FailureSkipsOneFile ==
    Constructed =>
        /\ error = "none"
        /\ failed \subseteq {attempted[i] : i \in 1..Len(attempted)}
        /\ attempted = FilesAmong(IF pc \in {"start", "constructed", "walk", "done"}
                                    THEN pos ELSE pos + 1)
        /\ pc = "done" => pos = Len(tree)

\* C8's case: the first file failed and the second was still copied
C8_Witness ==
    /\ Constructed /\ pc = "done"
    /\ failed = {1}
    /\ 2 \in copied

\* C9: the parts do not depend on buffer_size or on how many bytes each
\* read returns: a completed split has the part lengths that size and
\* max_part_size alone decide, and no read asks for more than buffer_size
\* or than what the current part still takes.
C9_BufferSizeDoesNotMatter ==
    script = "splitter" =>
        /\ \A p \in 1..Len(tree) :
              SplitCompleted(p) =>
                  PartLengths(parts[p]) = FullPartsThenRest(tree[p].size, max_size)
        /\ pc = "read" =>
              /\ bytes_to_read >= 1
              /\ bytes_to_read <= buffer_size
              /\ bytes_to_read <= max_size - bytes_written

\* C9's case: a completed split of several non-empty parts read through a
\* buffer larger than a part
C9_Witness ==
    /\ buffer_size > max_size
    /\ \E p \in 1..Len(tree) :
          /\ SplitCompleted(p)
          /\ Len(parts[p]) >= 2
          /\ \A j \in 1..Len(parts[p]) : Len(parts[p][j].data) >= 1

\* C10: without I/O errors, on a non-empty input and a capacity > 0,
\* split.py copies a file into part_k exactly when split_files_by_size puts
\* it in the k-th bin, and the part count is the number of bins.
C10_VariantsAgree ==
    (/\ script = "split" /\ pc = "done" /\ error = "none" /\ io_errors = 0
     /\ list_files_with_size(tree) # <<>>
     /\ max_size > 0) =>
        LET bins == split_files_by_size(list_files_with_size(tree), max_size)
        IN  /\ folders = [k \in 1..Len(bins) |-> Paths(bins[k])]
            /\ part_num = Len(bins)

=============================================================================
